---- MODULE Spec2Model ----
(***************************************************************************)
(* SMAWebConnect (src/smawebconnect/py3_main.py): the polling loop run(),  *)
(* one cycle _read_data() with its 401 -> _login() retry, the value        *)
(* extraction and reduction, the session id kept in memory and on disk,    *)
(* and the metrics deque written by the poller and drained by              *)
(* collect_metrics() generators.                                           *)
(***************************************************************************)
EXTENDS Integers, Sequences, FiniteSets, TLC

\* Bounds of the model.
MaxReadings == 3   \* longest list of channel instances under sub-key "1"
MaxSamples == 3    \* samples enqueued in one behaviour (the clock's last tick)
ReqWindow == 3     \* requests of the running cycle kept in the history window

\* Codes the program compares against.
AuthErr == 401
MaxSessionsErr == 503

Tokens == {"t1", "t2"}
Serials == {"s1", "s2"}
RawVals == {0, 100, 300}

----------------------------------------------------------------------------
\* Python values that end up in a sample: None, a float (an exact rational
\* num/den in lowest terms) or a bool.

RECURSIVE GCD(_, _)
GCD(a, b) == IF b = 0 THEN a ELSE GCD(b, a % b)

None == [t |-> "none", num |-> 0, den |-> 1]

Float(n, d) ==
    LET g == GCD(IF n < 0 THEN -n ELSE n, d)
    IN  [t |-> "float", num |-> n \div g, den |-> d \div g]

Bool(b) == [t |-> "bool", num |-> IF b THEN 1 ELSE 0, den |-> 1]

\* sum(values) of floats, left to right from 0
RECURSIVE Sum(_)
Sum(vs) ==
    IF vs = <<>> THEN Float(0, 1)
    ELSE LET h == vs[1]
             r == Sum(Tail(vs))
         IN  Float(h.num * r.den + r.num * h.den, h.den * r.den)

\* x / k for a float x and a positive int k
DivInt(x, k) == Float(x.num, x.den * k)

\* [value for value in values if value is not None]
RECURSIVE NotNone(_)
NotNone(vs) ==
    IF vs = <<>> THEN <<>>
    ELSE IF vs[1].t = "none" THEN NotNone(Tail(vs))
         ELSE <<vs[1]>> \o NotNone(Tail(vs))

----------------------------------------------------------------------------
\* The catalog: device key -> name and factor (two of the twenty entries; the
\* code treats every entry alike, "frequency" alone decides "online").

FIELD_MAPPING ==
    [k \in {"6100_00465700", "6100_40263F00"} |->
        IF k = "6100_00465700"
        THEN [name |-> "frequency", factor |-> 100]
        ELSE [name |-> "grid_power", factor |-> 1]]

CatalogKeys == DOMAIN FIELD_MAPPING

\* One channel instance of the device's answer: {"val": v}, {"val": null} or
\* a container without "val".
Instances ==
    {[kind |-> "num", v |-> x] : x \in RawVals}
        \cup {[kind |-> "null", v |-> 0], [kind |-> "noval", v |-> 0]}

SeqsUpTo(S, n) == UNION {[1..m -> S] : m \in 0..n}

\* What the device reports under one key: null, or a container with sub-keys
\* `keys` whose sub-key "1" (when present) holds the list `one`.
Containers ==
    {[null |-> TRUE, keys |-> {}, one |-> <<>>]}
        \cup {[null |-> FALSE, keys |-> {"1"}, one |-> l] :
                 l \in SeqsUpTo(Instances, MaxReadings)}
        \cup {[null |-> FALSE, keys |-> ks, one |-> <<>>] : ks \in {{}, {"2"}}}
        \cup {[null |-> FALSE, keys |-> {"1", "2"},
               one |-> <<[kind |-> "num", v |-> 100]>>]}

ShortContainers == {c \in Containers : Len(c.one) <= 1}

\* A device payload of the extraction specification: the catalog keys `ks`,
\* key `r` with container `c` and the others with the short containers `d`.
PayloadOf(ks, r, c, d) == [k \in ks |-> IF k = r THEN c ELSE d[k]]

----------------------------------------------------------------------------
\* Mutant of CleanValue: a null reading becomes 0 (value or 0).
CleanValueZero(value_container, factor) ==
    IF value_container.kind = "noval" THEN None
    ELSE IF value_container.kind = "null" THEN Float(0, factor)
    ELSE Float(value_container.v, factor)

\* _clean_value: one instance -> None or float(value) / factor
CleanValue(value_container, factor) ==
    IF value_container.kind = "noval" THEN None
    ELSE IF value_container.kind = "null" THEN None
    ELSE Float(value_container.v, factor)

\* the loop of _extract_values over two or more instances
RECURSIVE CleanAll(_, _)
CleanAll(values, factor) ==
    IF values = <<>> THEN <<>>
    ELSE LET value == CleanValue(values[1], factor)
         IN  (IF value.t # "none" THEN <<value>> ELSE <<>>)
                 \o CleanAll(Tail(values), factor)

\* len(values) of a null container raises TypeError
ExtractRaises(values) == values.null

\* _extract_values on a container that is not null
ExtractValues(values, factor) ==
    IF Cardinality(values.keys) # 1 \/ "1" \notin values.keys THEN <<>>
    ELSE IF Len(values.one) = 0 THEN <<>>
    ELSE IF Len(values.one) = 1 THEN <<CleanValue(values.one[1], factor)>>
    ELSE CleanAll(values.one, factor)

\* Mutant of Reduce: the sum is divided by the number of instances the
\* device reported, those without a value included.
ReduceAll(values) ==
    IF Len(values) = 0 THEN None
    ELSE IF Len(values) = 1 THEN values[1]
    ELSE LET vs == NotNone(values)
         IN  IF Len(vs) = 1 THEN vs[1]
             ELSE IF Len(vs) > 1 THEN DivInt(Sum(vs), Len(vs) + 1)
             ELSE None

\* The reduction of _read_data on the list _extract_values returned: the
\* value stored under the field's name, None when nothing is stored.
Reduce(values) ==
    IF Len(values) = 0 THEN None
    ELSE IF Len(values) = 1 THEN values[1]
    ELSE LET vs == NotNone(values)
         IN  IF Len(vs) = 1 THEN vs[1]
             ELSE IF Len(vs) > 1 THEN DivInt(Sum(vs), Len(vs))
             ELSE None

KeyOf(name) == CHOOSE k \in CatalogKeys : FIELD_MAPPING[k].name = name

FieldValue(data, key) ==
    Reduce(ExtractValues(data[key], FIELD_MAPPING[key].factor))

\* Mutant of Offline: offline as soon as any field has no value.
OfflineAnyField(metrics_values) ==
    \E k \in CatalogKeys : FIELD_MAPPING[k].name \notin DOMAIN metrics_values

\* 'frequency' not in metrics_values or metrics_values['frequency'] is None
Offline(metrics_values) ==
    \/ "frequency" \notin DOMAIN metrics_values
    \/ metrics_values["frequency"].t = "none"

\* metrics_values after the loop over FIELD_MAPPING, with "online" added
MetricsValues(data) ==
    LET set == {FIELD_MAPPING[k].name :
                   k \in {k \in CatalogKeys \cap DOMAIN data :
                             FieldValue(data, k).t # "none"}}
        fields == [n \in set |-> FieldValue(data, KeyOf(n))]
    IN  [n \in set \cup {"online"} |->
            IF n = "online" THEN Bool(~Offline(fields)) ELSE fields[n]]

\* what _extract_values returned for each key of the payload the loop reached
Extracted(data) ==
    [k \in {k \in CatalogKeys \cap DOMAIN data : ~ExtractRaises(data[k])} |->
        ExtractValues(data[k], FIELD_MAPPING[k].factor)]

----------------------------------------------------------------------------
VARIABLES
    pc,        \* where run() is: Ready, Fetching, Authenticating, Sleeping, Terminated
    outcome,   \* how the last finished cycle ended: None, Done, Failed
    sma_sid,   \* self._sma_sid: endpoint -> session id
    stored,    \* the session file: "nofile", "corrupt" or the sid it holds
    device,    \* the inverter: its serial and the field data it reports
    queue,     \* self._metrics_queue, leftmost element first
    now,       \* time.time(): ticks with every sample built
    reqs,      \* history: the last requests of the running cycle, each with the
               \* sid sent and the response's kind, err, result.sid ("": none)
               \* and shape
    cycleEnq,  \* history: samples the running cycle enqueued
    enqLog,    \* history: every sample enqueued, in order
    extracted, \* history: what _extract_values returned in the last parse
    gen,       \* the consumer's collect_metrics() generator: none, active, done, raised
    yielded,   \* history: what that generator yielded so far
    genSnap,   \* history: the samples queued when that generator was made, in
               \* the order they were enqueued
    genLate,   \* history: samples enqueued since, until the generator finished
    drained,   \* history: every sample any generator yielded, in order
    lastSave,  \* history: the last call of SIDPersister.save: its sid and how
               \* the write went ("none": no call yet)
    tokenSrc   \* history: the sid of this process's last login response that
               \* carried one (origin "login") or, while there was none, the sid
               \* SIDPersister.get returned at construction (origin "store")

vars == <<pc, outcome, sma_sid, stored, device, queue, now, reqs, cycleEnq,
          enqLog, extracted, gen, yielded, genSnap, genLate, drained,
          lastSave, tokenSrc>>

pollerVars == <<pc, outcome, sma_sid, stored, reqs, cycleEnq, extracted,
                lastSave, tokenSrc>>

IP == "https://192.168.0.230"

\* self._sma_sid.get(ip, '')
CurrentSid == IF IP \in DOMAIN sma_sid THEN sma_sid[IP] ELSE ""

\* SIDPersister.get: the stored sid, "" (None) on any failure
PersisterGet(file) == IF file \in Tokens THEN file ELSE ""

\* How the write of SIDPersister.save may go: it succeeds, open(path, 'w')
\* raises, or json.dump raises after open truncated the file.
IOOutcomes == {"ok", "open_failed", "dump_failed"}

\* Mutant of PersisterWrite: the file is opened for appending, so a write to
\* a file that is not empty leaves two records, which json.load cannot parse.
PersisterWriteAppends(file, sid, io) ==
    IF io = "ok" THEN (IF file = "nofile" THEN sid ELSE "corrupt")
    ELSE IF io = "open_failed" THEN file
    ELSE "corrupt"

\* Mutant of PersisterWrite: a file that holds a sid is not overwritten.
PersisterWriteOnce(file, sid, io) ==
    IF io = "ok" THEN (IF file \in {"nofile", "corrupt"} THEN sid ELSE file)
    ELSE IF io = "open_failed" THEN file
    ELSE "corrupt"

\* the file after SIDPersister.save(sid) whose write went `io`; the errors
\* are swallowed
PersisterWrite(file, sid, io) ==
    IF io = "ok" THEN sid
    ELSE IF io = "open_failed" THEN file
    ELSE "corrupt"

\* SIDPersister.save: what the file may hold afterwards. open(path, 'w')
\* failing leaves it as it was, json.dump failing leaves it truncated; both
\* errors are swallowed.
PersisterSave(file, sid) == {PersisterWrite(file, sid, io) : io \in IOOutcomes}

\* Mutant of SaveArg: _login saves an empty sid instead of the new one.
SaveArgEmpty(sid) == ""

\* the sid _login passes to SIDPersister.save
SaveArg(sid) == sid

\* Mutant of SetSid: the new sid is not kept in memory.
SetSidDropped(sids, ip, sid) == sids

\* self._sma_sid[ip] = sid
SetSid(sids, ip, sid) ==
    [x \in DOMAIN sids \cup {ip} |-> IF x = ip THEN sid ELSE sids[x]]

\* Mutant of AppendLeft: deque.append, the end pop() takes from.
AppendRight(q, x) == Append(q, x)

\* deque.appendleft
AppendLeft(q, x) == <<x>> \o q

\* Mutant of PopValue: deque[0], the newest sample.
PopValueLeft(q) == q[1]

\* Mutant of PopRest: the leftmost element is the one removed.
PopRestLeft(q) == Tail(q)

\* deque.pop: the rightmost element, and the deque without it
PopValue(q) == q[Len(q)]
PopRest(q) == SubSeq(q, 1, Len(q) - 1)

RECURSIVE Reverse(_)
Reverse(q) == IF q = <<>> THEN <<>> ELSE Append(Reverse(Tail(q)), q[1])

\* the history window keeps the last ReqWindow requests
Window(l) == IF Len(l) > ReqWindow THEN Tail(l) ELSE l

----------------------------------------------------------------------------
\* What the device may answer. kind "transport": requests.post or .json()
\* raised. err 0: no "err" key. result: the serial keys in the device's order,
\* each with a null or non-null payload (the non-null one is device.data).
ResultShapes ==
    {<<>>}
        \cup {<<[serial |-> device.serial, null |-> n]>> : n \in BOOLEAN}
        \cup {<<[serial |-> device.serial, null |-> FALSE], [serial |-> "s0", null |-> FALSE]>>}

GetValuesResponses ==
    {[kind |-> "transport", err |-> 0, hasResult |-> FALSE, result |-> <<>>]}
        \cup {[kind |-> "json", err |-> e, hasResult |-> FALSE, result |-> <<>>] :
                 e \in {0, AuthErr, 500}}
        \cup {[kind |-> "json", err |-> 0, hasResult |-> TRUE, result |-> r] :
                 r \in ResultShapes}

LoginResponses ==
    {[kind |-> "transport", err |-> 0, hasResult |-> FALSE, hasSid |-> FALSE, sid |-> ""]}
        \cup {[kind |-> "json", err |-> e, hasResult |-> FALSE, hasSid |-> FALSE, sid |-> ""] :
                 e \in {0, AuthErr, MaxSessionsErr}}
        \cup {[kind |-> "json", err |-> 0, hasResult |-> TRUE, hasSid |-> FALSE, sid |-> ""]}
        \cup {[kind |-> "json", err |-> 0, hasResult |-> TRUE, hasSid |-> TRUE, sid |-> t] :
                 t \in Tokens}

\* Mutant of RunCatches: except RuntimeError, which lets a transport failure
\* or a TypeError out of run().
RunCatchesRuntimeError(exc) == exc = "RuntimeError"

\* except Exception in run(): every exception a cycle raises is an Exception
RunCatches(exc) == exc \in {"RuntimeError", "RequestException", "TypeError"}

\* Mutant of LoginResult: response.get('result', {}).get('sid') is taken as
\* the sid whatever the response holds, nothing is raised.
LoginResultUnchecked(response) ==
    IF response.kind = "transport"
    THEN [ok |-> FALSE, sid |-> "", exc |-> "RequestException"]
    ELSE [ok |-> TRUE, sid |-> response.sid, exc |-> ""]

\* Mutant of LoginResult: only a response with an err code is a failure; one
\* without err and without result.sid is taken as a login with no sid.
LoginResultErrOnly(response) ==
    IF response.kind = "transport"
    THEN [ok |-> FALSE, sid |-> "", exc |-> "RequestException"]
    ELSE IF response.err # 0
    THEN [ok |-> FALSE, sid |-> "", exc |-> "RuntimeError"]
    ELSE [ok |-> TRUE, sid |-> response.sid, exc |-> ""]

\* _login on a response: the new sid, or the exception raised
LoginResult(response) ==
    IF response.kind = "transport"
    THEN [ok |-> FALSE, sid |-> "", exc |-> "RequestException"]
    ELSE IF response.hasResult /\ response.hasSid
    THEN [ok |-> TRUE, sid |-> response.sid, exc |-> ""]
    ELSE [ok |-> FALSE, sid |-> "", exc |-> "RuntimeError"]

\* Mutant of ReadDataResult: the number of serial keys is not checked, the
\* first key of a result is taken (an empty result still raises).
ReadDataResultFirstKey(response, data) ==
    IF response.kind = "transport"
    THEN [do |-> "raise", exc |-> "RequestException", serial |-> ""]
    ELSE IF response.err = AuthErr
    THEN [do |-> "login", exc |-> "", serial |-> ""]
    ELSE IF ~response.hasResult \/ Len(response.result) = 0
    THEN [do |-> "raise", exc |-> "RuntimeError", serial |-> ""]
    ELSE IF response.result[1].null
    THEN [do |-> "raise", exc |-> "RuntimeError", serial |-> ""]
    ELSE IF \E k \in CatalogKeys \cap DOMAIN data : ExtractRaises(data[k])
    THEN [do |-> "raise", exc |-> "TypeError", serial |-> ""]
    ELSE [do |-> "enqueue", exc |-> "", serial |-> response.result[1].serial]

\* Mutant of ReadDataResult: every err code sends _read_data to _login, not
\* 401 alone.
ReadDataResultAnyErr(response, data) ==
    IF response.kind = "transport"
    THEN [do |-> "raise", exc |-> "RequestException", serial |-> ""]
    ELSE IF response.err # 0
    THEN [do |-> "login", exc |-> "", serial |-> ""]
    ELSE IF ~response.hasResult \/ Len(response.result) # 1
    THEN [do |-> "raise", exc |-> "RuntimeError", serial |-> ""]
    ELSE IF response.result[1].null
    THEN [do |-> "raise", exc |-> "RuntimeError", serial |-> ""]
    ELSE IF \E k \in CatalogKeys \cap DOMAIN data : ExtractRaises(data[k])
    THEN [do |-> "raise", exc |-> "TypeError", serial |-> ""]
    ELSE [do |-> "enqueue", exc |-> "", serial |-> response.result[1].serial]

\* _read_data on a getValues response: log in, raise, or the sample's serial
\* and values
ReadDataResult(response, data) ==
    IF response.kind = "transport"
    THEN [do |-> "raise", exc |-> "RequestException", serial |-> ""]
    ELSE IF response.err = AuthErr
    THEN [do |-> "login", exc |-> "", serial |-> ""]
    ELSE IF ~response.hasResult \/ Len(response.result) # 1
    THEN [do |-> "raise", exc |-> "RuntimeError", serial |-> ""]
    ELSE IF response.result[1].null
    THEN [do |-> "raise", exc |-> "RuntimeError", serial |-> ""]
    ELSE IF \E k \in CatalogKeys \cap DOMAIN data : ExtractRaises(data[k])
    THEN [do |-> "raise", exc |-> "TypeError", serial |-> ""]
    ELSE [do |-> "enqueue", exc |-> "", serial |-> response.result[1].serial]

\* the shape of a getValues response, for the history: no "result", or the
\* number of serial keys (k1null: one key with a null payload)
Shape(response) ==
    IF response.kind = "transport" THEN ""
    ELSE IF ~response.hasResult THEN "none"
    ELSE IF Len(response.result) = 0 THEN "k0"
    ELSE IF Len(response.result) > 1 THEN "k2"
    ELSE IF response.result[1].null THEN "k1null"
    ELSE "k1"

\* Mutant of Sample: the sample is tagged with the endpoint's address, not
\* with the serial key of the response.
SampleTaggedIp(device_id, values, time) ==
    [type |-> "sma", timestamp |-> time, tags |-> [device |-> IP],
     values |-> values]

\* the sample _enqueue_metrics builds
Sample(device_id, values, time) ==
    [type |-> "sma", timestamp |-> time, tags |-> [device |-> device_id],
     values |-> values]

----------------------------------------------------------------------------
\* The generator of collect_metrics resumed once: yield self._metrics_queue.pop(),
\* or IndexError on the empty deque, which ends it.
DrainStep(q) ==
    IF q # <<>>
    THEN [do |-> "yield", value |-> <<PopValue(q)>>, rest |-> PopRest(q)]
    ELSE [do |-> "done", value |-> <<>>, rest |-> q]

NoSid == [x \in {} |-> ""]

\* Mutant of InitSid: __init__ starts without a token whatever the file holds.
InitSidIgnoresStore(file) == NoSid

\* SMAWebConnect.__init__ given the session file
InitSid(file) ==
    IF PersisterGet(file) # "" THEN [x \in {IP} |-> PersisterGet(file)] ELSE NoSid

Num(x) == [kind |-> "num", v |-> x]
Dict1(l) == [null |-> FALSE, keys |-> {"1"}, one |-> l]

\* The payloads of the polling specification: nothing reported, and a
\* running inverter (frequency 50 Hz, three grid power instances).
CyclePayloads ==
    {[k \in {} |-> Dict1(<<>>)],
     [k \in CatalogKeys |->
        IF k = "6100_00465700" THEN Dict1(<<Num(300)>>)
        ELSE Dict1(<<Num(100), [kind |-> "null", v |-> 0], Num(300)>>)]}

\* the state after SMAWebConnect.__init__, given the device and the session file
InitWith(dev, file) ==
    /\ pc = "Ready"
    /\ outcome = "None"
    /\ stored = file
    /\ sma_sid = InitSid(file)
    /\ device = dev
    /\ queue = <<>>
    /\ now = 0
    /\ reqs = <<>>
    /\ cycleEnq = 0
    /\ enqLog = <<>>
    /\ extracted = [k \in {} |-> <<>>]
    /\ gen = "none"
    /\ yielded = <<>>
    /\ genSnap = <<>>
    /\ genLate = <<>>
    /\ drained = <<>>
    /\ lastSave = [sid |-> "", io |-> "none"]
    /\ tokenSrc = [origin |-> "store", sid |-> PersisterGet(file)]

Init ==
    \E s \in Serials, p \in CyclePayloads, file \in {"nofile", "corrupt"} \cup Tokens :
        InitWith([serial |-> s, data |-> p], file)

\* run(): the for loop enters _read_data
StartCycle ==
    /\ pc = "Ready"
    /\ pc' = "Fetching"
    /\ outcome' = "None"
    /\ reqs' = <<>>
    /\ cycleEnq' = 0
    /\ UNCHANGED <<sma_sid, stored, device, queue, now, enqLog, extracted,
                   gen, yielded, genSnap, genLate, drained, lastSave, tokenSrc>>

\* an exception leaves _read_data: run() logs it and goes on to sleep
Raise(exc) ==
    /\ pc' = IF RunCatches(exc) THEN "Sleeping" ELSE "Terminated"
    /\ outcome' = "Failed"

\* _read_data: one getValues request, and all it does with the response
GetValues(response) ==
    /\ pc = "Fetching"
    /\ LET r == ReadDataResult(response, device.data)
           sample == Sample(r.serial, MetricsValues(device.data), now + 1)
       IN  /\ reqs' = Window(Append(reqs,
                  [kind |-> "getValues", sid |-> CurrentSid, resp |-> response.kind,
                   err |-> response.err, tok |-> "", shape |-> Shape(response)]))
           /\ IF r.do = "login"
              THEN /\ pc' = "Authenticating"
                   /\ UNCHANGED <<outcome, queue, now, enqLog, cycleEnq, extracted, genLate>>
              ELSE IF r.do = "raise"
              THEN /\ Raise(r.exc)
                   /\ UNCHANGED <<queue, now, enqLog, cycleEnq, extracted, genLate>>
              ELSE /\ now < MaxSamples
                   /\ queue' = AppendLeft(queue, sample)
                   /\ now' = now + 1
                   /\ enqLog' = Append(enqLog, sample)
                   /\ cycleEnq' = cycleEnq + 1
                   /\ extracted' = Extracted(device.data)
                   /\ genLate' = IF gen = "active" THEN Append(genLate, sample) ELSE genLate
                   /\ pc' = "Sleeping"
                   /\ outcome' = "Done"
    /\ UNCHANGED <<sma_sid, stored, device, gen, yielded, genSnap, drained,
                   lastSave, tokenSrc>>

\* _login: one login request, and all it does with the response
Login(response) ==
    /\ pc = "Authenticating"
    /\ LET r == LoginResult(response)
       IN  /\ reqs' = Window(Append(reqs,
                  [kind |-> "login", sid |-> "", resp |-> response.kind,
                   err |-> response.err, tok |-> response.sid, shape |-> ""]))
           /\ tokenSrc' = IF response.kind = "json" /\ response.sid # ""
                          THEN [origin |-> "login", sid |-> response.sid]
                          ELSE tokenSrc
           /\ IF r.ok
              THEN /\ sma_sid' = SetSid(sma_sid, IP, r.sid)
                   /\ \E io \in IOOutcomes :
                         /\ stored' = PersisterWrite(stored, SaveArg(r.sid), io)
                         /\ lastSave' = [sid |-> SaveArg(r.sid), io |-> io]
                   /\ pc' = "Fetching"
                   /\ UNCHANGED outcome
              ELSE /\ Raise(r.exc)
                   /\ UNCHANGED <<sma_sid, stored, lastSave>>
    /\ UNCHANGED <<device, queue, now, enqLog, cycleEnq, extracted,
                   gen, yielded, genSnap, genLate, drained>>

\* run(): time.sleep(self._sample_rate) returns
Sleep ==
    /\ pc = "Sleeping"
    /\ pc' = "Ready"
    /\ UNCHANGED <<outcome, sma_sid, stored, device, queue, now, reqs, cycleEnq,
                   enqLog, extracted, gen, yielded, genSnap, genLate, drained,
                   lastSave, tokenSrc>>

\* the consumer calls collect_metrics(): a new generator, nothing run yet
CollectMetrics ==
    /\ gen' = "active"
    /\ yielded' = <<>>
    /\ genSnap' = SelectSeq(enqLog, LAMBDA x : \E i \in 1..Len(queue) : queue[i] = x)
    /\ genLate' = <<>>
    /\ UNCHANGED <<pollerVars, device, queue, now, enqLog, drained>>

\* the consumer resumes the generator
GenNext ==
    /\ gen = "active"
    /\ LET d == DrainStep(queue)
       IN  /\ gen' = IF d.do = "yield" THEN "active" ELSE d.do
           /\ queue' = d.rest
           /\ yielded' = yielded \o d.value
           /\ drained' = drained \o d.value
    /\ UNCHANGED <<pollerVars, device, now, enqLog, genSnap, genLate>>

Poller ==
    \/ StartCycle
    \/ \E response \in GetValuesResponses : GetValues(response)
    \/ \E response \in LoginResponses : Login(response)
    \/ Sleep

Consumer == CollectMetrics \/ GenNext

Next == Poller \/ Consumer

Spec == Init /\ [][Next]_vars

\* The poller alone, for the claims about the progress of run(): its thread
\* keeps running and the device answers every request. The consumer's steps
\* change nothing run() reads (run() only appends to the queue).
LiveSpec == Init /\ [][Poller]_vars /\ WF_vars(Poller)

\* The process is stopped and __main__ runs again: SIDPersister.get reads
\* what the file holds now, __init__ builds a new object with an empty queue.
\* Only the file (and the history of its writes) and the device outlive the
\* process.
Restart ==
    /\ pc' = "Ready"
    /\ outcome' = "None"
    /\ sma_sid' = InitSid(stored)
    /\ queue' = <<>>
    /\ now' = 0
    /\ reqs' = <<>>
    /\ cycleEnq' = 0
    /\ enqLog' = <<>>
    /\ extracted' = [k \in {} |-> <<>>]
    /\ gen' = "none"
    /\ yielded' = <<>>
    /\ genSnap' = <<>>
    /\ genLate' = <<>>
    /\ drained' = <<>>
    /\ tokenSrc' = [origin |-> "store", sid |-> PersisterGet(stored)]
    /\ UNCHANGED <<stored, device, lastSave>>

SessionNext == Poller \/ Restart

\* The poller across restarts of the process, for the claims about the
\* poller alone and about the session token and its file.
SessionSpec == Init /\ [][SessionNext]_vars

\* One cycle of the poller on every payload PayloadOf builds, for the claims
\* about extraction and reduction.
ExtractInit ==
    \E ks \in SUBSET CatalogKeys, r \in CatalogKeys, c \in Containers,
       d \in [CatalogKeys -> ShortContainers] :
        InitWith([serial |-> "s1", data |-> PayloadOf(ks, r, c, d)], "nofile")

ExtractNext ==
    \/ StartCycle
    \/ \E response \in GetValuesResponses : GetValues(response)

ExtractSpec == ExtractInit /\ [][ExtractNext]_vars

----------------------------------------------------------------------------
\* Claims.

LastReq == reqs[Len(reqs)]

\* C1: no cycle failure terminates the polling loop: run() never reaches a
\* terminated state, a cycle that fails leaves run() at its sleep, from the
\* sleep run() can only go to the top of the loop and from there into the
\* next cycle, and (the thread running) a failed cycle is followed by the
\* next cycle's fetch.
C1_FailureNeverTerminates ==
    /\ [](pc # "Terminated")
    /\ [][(outcome # "Failed" /\ outcome' = "Failed") => pc' = "Sleeping"]_vars
    /\ [][(pc = "Sleeping" /\ pc' # pc) => pc' = "Ready"]_vars
    /\ [][(pc = "Ready" /\ pc' # pc) => pc' = "Fetching"]_vars
    /\ ((pc = "Sleeping" /\ outcome = "Failed") ~> (pc = "Fetching"))

\* C1 witness: a cycle has failed on a rejected login and run() is at its sleep.
C1_Witness ==
    /\ pc = "Sleeping"
    /\ outcome = "Failed"
    /\ reqs # <<>>
    /\ LastReq.kind = "login"
    /\ LastReq.err = MaxSessionsErr

\* C2: forward progress: every cycle run() starts eventually ends (Done or
\* Failed) with run() at its inter-cycle sleep, whatever the device answers.
C2_CycleReachesSleep ==
    (pc = "Fetching") ~> (pc = "Sleeping" /\ outcome \in {"Done", "Failed"})

\* a getValues response with err 401, a login response with and without a sid
Is401(q) == q.kind = "getValues" /\ q.resp = "json" /\ q.err = AuthErr
LoginOk(q) == q.kind = "login" /\ q.resp = "json" /\ q.tok # ""
LoginFailed(q) == q.kind = "login" /\ ~LoginOk(q)

\* C3: in the requests of one cycle, a getValues answered err 401 is followed
\* by a login (or run() is about to log in), and a login that returned a sid
\* is followed by a getValues sent with exactly that sid (or run() is about
\* to fetch in the same cycle and the sid in memory is that sid).
C3_RetryUsesNewToken ==
    \A i \in 1..Len(reqs) :
        /\ Is401(reqs[i]) =>
              IF i < Len(reqs) THEN reqs[i + 1].kind = "login"
              ELSE pc = "Authenticating"
        /\ LoginOk(reqs[i]) =>
              IF i < Len(reqs)
              THEN reqs[i + 1].kind = "getValues" /\ reqs[i + 1].sid = reqs[i].tok
              ELSE pc = "Fetching" /\ CurrentSid = reqs[i].tok

\* C3 witness: a fetch with sid t1 was answered 401, the login returned t2
\* and the same cycle fetched again with t2.
C3_Witness ==
    /\ Len(reqs) = 3
    /\ Is401(reqs[1]) /\ reqs[1].sid = "t1"
    /\ LoginOk(reqs[2]) /\ reqs[2].tok = "t2"
    /\ reqs[3].kind = "getValues" /\ reqs[3].sid = "t2"

\* C4: a login that is not answered with a sid (err 503, another err, no
\* result, a transport failure) is the last request of its cycle; the cycle
\* has ended Failed and has enqueued no sample.
C4_FailedLoginAbortsCycle ==
    \A i \in 1..Len(reqs) :
        LoginFailed(reqs[i]) =>
            /\ i = Len(reqs)
            /\ pc \in {"Sleeping", "Ready"}
            /\ outcome = "Failed"
            /\ cycleEnq = 0

\* C4 witness: the cycle's login was answered err 503 after an earlier cycle
\* had enqueued a sample; run() has slept and is back at the top of its loop.
C4_Witness ==
    /\ pc = "Ready"
    /\ reqs # <<>>
    /\ LoginFailed(LastReq) /\ LastReq.err = MaxSessionsErr
    /\ enqLog # <<>>
    /\ cycleEnq = 0

IsPrefix(a, b) == Len(a) <= Len(b) /\ SubSeq(b, 1, Len(a)) = a

InQueue(x) == \E i \in 1..Len(queue) : queue[i] = x

\* C5: with no enqueue since the generator was made, it yields the samples
\* that were queued, oldest first; once all are yielded the queue is empty,
\* the exhausted generator has yielded exactly those samples, what is queued
\* afterwards was not queued at the call, and the step that ends the
\* generator leaves an empty queue and raises nothing.
C5_DrainOrder ==
    /\ [](gen # "raised")
    /\ []((gen \in {"active", "done"} /\ genLate = <<>>) =>
            /\ IsPrefix(yielded, genSnap)
            /\ (gen = "active" /\ yielded = genSnap) => queue = <<>>
            /\ gen = "done" =>
                  /\ yielded = genSnap
                  /\ \A i \in 1..Len(genSnap) : ~InQueue(genSnap[i]))
    /\ [][(gen = "active" /\ gen' = "done") => queue' = <<>>]_vars

\* C5 witness: three samples were queued at the call, none was enqueued
\* during the drain, and the generator has finished having yielded the three.
C5_Witness ==
    /\ gen = "done"
    /\ genLate = <<>>
    /\ Len(genSnap) = 3
    /\ yielded = enqLog
    /\ queue = <<>>

\* C6: under every interleaving of the poller and the consumer, the samples
\* yielded so far, followed by the queued samples in the order pop() will
\* take them, are exactly the samples enqueued, in the order enqueued: none
\* lost, none twice, none out of order.
C6_ExactlyOnceInOrder ==
    /\ drained \o Reverse(queue) = enqLog
    /\ \A i, j \in 1..Len(enqLog) : i < j => enqLog[i].timestamp < enqLog[j].timestamp

\* C6 witness: a generator yielded a sample, a sample was enqueued while it
\* was suspended, and samples are still queued.
C6_Witness ==
    /\ gen = "active"
    /\ yielded # <<>>
    /\ genLate # <<>>
    /\ queue # <<>>
    /\ Len(enqLog) = 3

\* C7 as stated: a generator yields only samples that were queued when it was
\* made.
C7_OnlyCallTime ==
    \A i \in 1..Len(yielded) : \E j \in 1..Len(genSnap) : genSnap[j] = yielded[i]

\* C7 amended: a generator drains until it finds the queue empty: while it
\* runs, what it yielded followed by what is queued is what was queued at the
\* call followed by what was enqueued since; once it has finished it has
\* yielded all of those, and what was enqueued later is in the queue.
C7_DrainsUntilEmpty ==
    /\ gen = "active" => yielded \o Reverse(queue) = genSnap \o genLate
    /\ gen = "done" =>
          /\ yielded = genSnap \o genLate
          /\ \A i \in 1..Len(queue) :
                \A j \in 1..Len(yielded) : queue[i].timestamp > yielded[j].timestamp

\* C7 witness: the finished generator yielded a sample that was queued at the
\* call and one enqueued during the drain; a sample enqueued after it
\* finished is queued.
C7_Witness ==
    /\ gen = "done"
    /\ Len(genSnap) = 1
    /\ Len(genLate) = 1
    /\ yielded = genSnap \o genLate
    /\ Len(queue) = 1

\* The readings of a catalog key in a payload, read off the payload alone:
\* the instances under sub-key "1" of a container that has that sub-key and
\* no other; a missing key and a container of another shape have none.
Readings(data, k) ==
    IF k \in DOMAIN data /\ ~data[k].null /\ data[k].keys = {"1"}
    THEN data[k].one ELSE <<>>

\* the raw values of the readings that are numbers, in the device's order
NonNull(data, k) ==
    LET l == SelectSeq(Readings(data, k), LAMBDA c : c.kind = "num")
    IN  [i \in 1..Len(l) |-> l[i].v]

RECURSIVE SumRaw(_)
SumRaw(l) == IF l = <<>> THEN 0 ELSE l[1] + SumRaw(Tail(l))

FreqKey == "6100_00465700"
PowerKey == "6100_40263F00"

\* C8: every enqueued sample has the key "online"; it is false exactly when
\* "frequency" has no non-null reading in the payload (the key missing
\* included), whatever the payload holds for the other fields.
C8_OnlineIffFrequency ==
    \A i \in 1..Len(queue) :
        /\ "online" \in DOMAIN queue[i].values
        /\ queue[i].values["online"].t = "bool"
        /\ queue[i].values["online"].num = 0 <=> NonNull(device.data, FreqKey) = <<>>

\* C8 witness: frequency {"1": [{"val": null}]} beside a grid power reading:
\* the sample is offline, has no "frequency" key and has the grid power.
C8_Witness ==
    /\ Len(queue) = 1
    /\ FreqKey \in DOMAIN device.data
    /\ device.data[FreqKey] = Dict1(<<[kind |-> "null", v |-> 0]>>)
    /\ queue[1].values["online"] = Bool(FALSE)
    /\ DOMAIN queue[1].values = {"online", "grid_power"}

\* C9: for every catalog key of the payload and every enqueued sample: with
\* N >= 1 non-null readings the sample's value v of the field is a float in
\* lowest terms with v * N * factor = the sum of the raw non-null values (the
\* mean of the scaled non-null values); with none the field's key is absent.
C9_ReductionLaw ==
    \A i \in 1..Len(queue) :
        \A k \in CatalogKeys \cap DOMAIN device.data :
            LET raw == NonNull(device.data, k)
                name == FIELD_MAPPING[k].name
                values == queue[i].values
            IN  IF Len(raw) = 0 THEN name \notin DOMAIN values
                ELSE /\ name \in DOMAIN values
                     /\ values[name].t = "float"
                     /\ values[name].den > 0
                     /\ GCD(IF values[name].num < 0 THEN -values[name].num
                            ELSE values[name].num, values[name].den) = 1
                     /\ values[name].num * Len(raw) * FIELD_MAPPING[k].factor
                           = SumRaw(raw) * values[name].den

\* C9 witness: grid power [100, null, 300] with factor 1 is enqueued as 200.
C9_Witness ==
    /\ Len(queue) = 1
    /\ PowerKey \in DOMAIN device.data
    /\ device.data[PowerKey] = Dict1(<<Num(100), [kind |-> "null", v |-> 0], Num(300)>>)
    /\ queue[1].values["grid_power"] = [t |-> "float", num |-> 200, den |-> 1]

\* C10: what _extract_values returned for a key with one instance is one
\* entry: raw / factor for a numeric reading, None (not a float, not 0) for a
\* null reading; with several instances it is raw / factor of each numeric
\* reading; and a field whose value in a sample is 0 has a raw reading 0.
C10_ScalingKeepsNull ==
    /\ \A k \in DOMAIN extracted :
          LET l == Readings(device.data, k)
              f == FIELD_MAPPING[k].factor
              raw == NonNull(device.data, k)
          IN  /\ Len(l) = 1 =>
                    /\ Len(extracted[k]) = 1
                    /\ l[1].kind = "num" =>
                          /\ extracted[k][1].t = "float"
                          /\ extracted[k][1].num * f = l[1].v * extracted[k][1].den
                    /\ l[1].kind # "num" => extracted[k][1] = None
              /\ Len(l) > 1 =>
                    /\ Len(extracted[k]) = Len(raw)
                    /\ \A j \in 1..Len(raw) :
                          /\ extracted[k][j].t = "float"
                          /\ extracted[k][j].num * f = raw[j] * extracted[k][j].den
    /\ \A i \in 1..Len(queue) :
          \A k \in CatalogKeys :
              LET name == FIELD_MAPPING[k].name
                  raw == NonNull(device.data, k)
              IN  (name \in DOMAIN queue[i].values /\ queue[i].values[name].num = 0)
                      => \E j \in 1..Len(raw) : raw[j] = 0

\* C10 witness: frequency 300 / 100 = 3 is extracted beside a grid power
\* reading of null, which is extracted as None and is not in the sample.
C10_Witness ==
    /\ Len(queue) = 1
    /\ DOMAIN extracted = CatalogKeys
    /\ device.data[FreqKey] = Dict1(<<Num(300)>>)
    /\ extracted[FreqKey] = <<[t |-> "float", num |-> 3, den |-> 1]>>
    /\ device.data[PowerKey] = Dict1(<<[kind |-> "null", v |-> 0]>>)
    /\ extracted[PowerKey] = <<None>>
    /\ "grid_power" \notin DOMAIN queue[1].values

\* C11: what _extract_values returned for a key with k >= 2 instances has
\* exactly k entries, entry j being raw / factor of instance j when it is a
\* number and None when it is null or has no "val".
C11_OneEntryPerInstance ==
    \A k \in DOMAIN extracted :
        LET l == Readings(device.data, k)
            f == FIELD_MAPPING[k].factor
        IN  Len(l) >= 2 =>
                /\ Len(extracted[k]) = Len(l)
                /\ \A j \in 1..Len(l) :
                      IF l[j].kind = "num"
                      THEN /\ extracted[k][j].t = "float"
                           /\ extracted[k][j].num * f = l[j].v * extracted[k][j].den
                      ELSE extracted[k][j] = None

\* C12: a login answered {"result": {"sid": t}} sets the endpoint's token in
\* memory to t and calls SIDPersister.save with t; the cycle goes on, and the
\* getValues that follows the login carries t.
C12_LoginSetsAndSavesToken ==
    \A i \in 1..Len(reqs) :
        LoginOk(reqs[i]) =>
            IF i = Len(reqs)
            THEN /\ pc = "Fetching"
                 /\ IP \in DOMAIN sma_sid
                 /\ sma_sid[IP] = reqs[i].tok
                 /\ lastSave.io # "none"
                 /\ lastSave.sid = reqs[i].tok
            ELSE /\ reqs[i + 1].kind = "getValues"
                 /\ reqs[i + 1].sid = reqs[i].tok

\* C12 witness: a process that started on the stored token t1 was answered
\* 401, logged in for t2, called save with t2 (the write failed) and has sent
\* the next getValues with t2.
C12_Witness ==
    /\ Len(reqs) = 3
    /\ Is401(reqs[1]) /\ reqs[1].sid = "t1"
    /\ LoginOk(reqs[2]) /\ reqs[2].tok = "t2"
    /\ reqs[3].kind = "getValues" /\ reqs[3].sid = "t2"
    /\ lastSave = [sid |-> "t2", io |-> "open_failed"]
    /\ stored = "t1"
    /\ tokenSrc.origin = "login"

Answered(q) == q.kind = "getValues" /\ q.resp = "json" /\ q.err # AuthErr

\* C14: a getValues response other than err 401 leads to a sample only if it
\* has a result with exactly one serial key and a payload that is not null;
\* without a result, with no key, with two keys or with a null payload the
\* cycle has ended Failed, that request was its last and it enqueued nothing.
C14_OnlyOneDeviceIsParsed ==
    /\ \A i \in 1..Len(reqs) :
          (Answered(reqs[i]) /\ reqs[i].shape # "k1") =>
              /\ reqs[i].shape \in {"none", "k0", "k2", "k1null"}
              /\ i = Len(reqs)
              /\ pc \in {"Sleeping", "Ready"}
              /\ outcome = "Failed"
              /\ cycleEnq = 0
    /\ (outcome = "Done" \/ cycleEnq > 0) =>
          /\ reqs # <<>>
          /\ Answered(LastReq)
          /\ LastReq.shape = "k1"

\* C14 witness: after a cycle that enqueued a sample, the next cycle's
\* getValues was answered with a result of two serial keys: that cycle ended
\* Failed with nothing enqueued.
C14_Witness ==
    /\ pc = "Sleeping"
    /\ Len(reqs) = 1
    /\ Answered(LastReq) /\ LastReq.shape = "k2"
    /\ outcome = "Failed"
    /\ cycleEnq = 0
    /\ Len(enqLog) = 1

\* C15: a login is sent only directly after a getValues answered err 401 (the
\* first request of a cycle is a getValues; a login at the head of the history
\* is one whose predecessor the window no longer holds); a getValues that
\* failed in transport or was answered with another err code and no result is
\* the last request of its cycle, which has ended Failed with nothing
\* enqueued.
C15_LoginOnlyAfter401 ==
    /\ \A i \in 1..Len(reqs) :
          reqs[i].kind = "login" =>
              IF i > 1 THEN Is401(reqs[i - 1]) ELSE Len(reqs) = ReqWindow
    /\ pc = "Authenticating" => (reqs # <<>> /\ Is401(LastReq))
    /\ \A i \in 1..Len(reqs) :
          (reqs[i].kind = "getValues" /\ ~Is401(reqs[i])
               /\ (reqs[i].resp = "transport" \/ reqs[i].err # 0)) =>
              /\ i = Len(reqs)
              /\ pc \in {"Sleeping", "Ready"}
              /\ outcome = "Failed"
              /\ cycleEnq = 0

\* C15 witness: the first getValues of a cycle was answered err 500: the
\* cycle ended Failed with that one request, no login was sent.
C15_Witness ==
    /\ pc = "Sleeping"
    /\ Len(reqs) = 1
    /\ reqs[1].kind = "getValues" /\ reqs[1].resp = "json" /\ reqs[1].err = 500
    /\ outcome = "Failed"
    /\ cycleEnq = 0

\* C16: a getValues response with one serial key and a payload that is not
\* null always ends the cycle Done with one sample, whatever the shape of a
\* field's container (no sub-key "1", other sub-keys, null, an instance
\* without "val"); a field without readings is absent from the sample and
\* every field with a numeric reading is in it.
C16_AnomalyNeverFatal ==
    (pc = "Sleeping" /\ Answered(LastReq) /\ LastReq.shape = "k1") =>
        /\ outcome = "Done"
        /\ cycleEnq = 1
        /\ Len(queue) = 1
        /\ \A k \in CatalogKeys :
              FIELD_MAPPING[k].name \in DOMAIN queue[1].values
                  <=> NonNull(device.data, k) # <<>>

\* a step of the poller inside a cycle: a getValues or a login was answered
CycleStep == pc \in {"Fetching", "Authenticating"} /\ reqs' # reqs /\ reqs' # <<>>

\* C17: a cycle enqueues at most one sample. The step that ends a cycle Done
\* puts exactly one sample on the queue, of type "sma" and tagged with the
\* serial key of the response, and a cycle that has ended Done has enqueued
\* one; every other step of a cycle, the one that ends it Failed included,
\* leaves the queue as it is, and a cycle that has ended Failed has enqueued
\* nothing.
C17_OneSamplePerCycle ==
    /\ [](cycleEnq <= 1)
    /\ [](outcome = "Done" =>
            /\ cycleEnq = 1
            /\ enqLog # <<>>
            /\ enqLog[Len(enqLog)].type = "sma"
            /\ enqLog[Len(enqLog)].tags = [device |-> device.serial])
    /\ [](outcome = "Failed" => cycleEnq = 0)
    /\ [][(CycleStep /\ outcome' = "Done") =>
            /\ Len(enqLog') = Len(enqLog) + 1
            /\ queue' = <<enqLog'[Len(enqLog')]>> \o queue]_vars
    /\ [][(CycleStep /\ outcome' # "Done") =>
            (queue' = queue /\ enqLog' = enqLog)]_vars

\* C17 witness: the device with serial s2 has had one cycle Done and then one
\* cycle Failed; the one sample, tagged s2, is still queued.
C17_Witness ==
    /\ outcome = "Failed"
    /\ pc = "Sleeping"
    /\ cycleEnq = 0
    /\ Len(enqLog) = 1
    /\ queue = enqLog
    /\ queue[1].type = "sma"
    /\ queue[1].tags.device = "s2"
    /\ device.serial = "s2"

\* C18: the sid sent with a getValues, and the token in memory at any time,
\* is the sid of this process's most recent login response that carried one
\* or, while there was none, the sid SIDPersister.get returned at
\* construction, the empty string when it returned none (the file then still
\* is as it was read); and the step of a getValues leaves the token in memory
\* as it is.
C18_TokenSentIsLatest ==
    /\ []((reqs # <<>> /\ LastReq.kind = "getValues") => LastReq.sid = tokenSrc.sid)
    /\ [](CurrentSid = tokenSrc.sid)
    /\ [](tokenSrc.origin = "store" =>
            tokenSrc.sid = (IF stored \in Tokens THEN stored ELSE ""))
    /\ [][(pc = "Fetching" /\ CycleStep) => sma_sid' = sma_sid]_vars

\* C18 witness: a process constructed on a file holding t1 logged in for t2
\* in an earlier cycle; the first getValues of the running cycle carries t2.
C18_Witness ==
    /\ Len(reqs) = 1
    /\ reqs[1].kind = "getValues" /\ reqs[1].sid = "t2"
    /\ tokenSrc = [origin |-> "login", sid |-> "t2"]
    /\ stored = "t1"
    /\ lastSave = [sid |-> "t2", io |-> "open_failed"]

\* the request a step of the cycle has just added to the history
NewReq == reqs'[Len(reqs')]

\* C19: the step of a login that is not answered with a sid (err 503, another
\* err, no result.sid, a transport failure) changes neither the token in
\* memory nor the file, and SIDPersister.save is not called; nor does the
\* sleep or the start of the next cycle change them, so that the token in
\* memory after the failed login is still the one sent with the getValues
\* that was answered 401, and it is what the next getValues sends.
C19_FailedLoginChangesNothing ==
    /\ [][(CycleStep /\ LoginFailed(NewReq)) =>
            (sma_sid' = sma_sid /\ stored' = stored /\ lastSave' = lastSave)]_vars
    /\ [][((pc = "Sleeping" /\ pc' = "Ready" /\ reqs' = reqs)
              \/ (pc = "Ready" /\ pc' = "Fetching")) =>
            (sma_sid' = sma_sid /\ stored' = stored /\ lastSave' = lastSave)]_vars
    /\ []((Len(reqs) >= 2 /\ LoginFailed(LastReq)) =>
            CurrentSid = reqs[Len(reqs) - 1].sid)
    /\ [][(pc = "Fetching" /\ CycleStep) => NewReq.sid = CurrentSid]_vars

\* C19 witness: the getValues sent with the stored token t1 was answered 401
\* and the login err 503; run() has slept and is at the top of its loop with
\* t1 still in memory and in the file, save never called.
C19_Witness ==
    /\ pc = "Ready"
    /\ Len(reqs) = 2
    /\ Is401(reqs[1]) /\ reqs[1].sid = "t1"
    /\ LoginFailed(reqs[2]) /\ reqs[2].err = MaxSessionsErr
    /\ sma_sid = [x \in {IP} |-> "t1"]
    /\ stored = "t1"
    /\ lastSave.io = "none"

\* C20, as stated: whenever a token is held in memory for the endpoint, the
\* file holds the same token.
C20_MemoryMirrorsFile ==
    IP \in DOMAIN sma_sid => stored = sma_sid[IP]

\* C20, amended: a token held in memory that came from the file at
\* construction is the token the file holds; one that came from a login is
\* the sid of the last call of save, and the file holds it when the write of
\* that call succeeded; when json.dump failed the file is left unparsable
\* while the token stays in memory.
C20_MirrorsWhenWritten ==
    IP \in DOMAIN sma_sid =>
        IF tokenSrc.origin = "store"
        THEN stored = sma_sid[IP]
        ELSE /\ lastSave.io # "none"
             /\ lastSave.sid = sma_sid[IP]
             /\ lastSave.io = "ok" => stored = sma_sid[IP]
             /\ lastSave.io = "dump_failed" => stored = "corrupt"

\* C20 witness: the process started on the stored token t1 and logged in for
\* t2; the write of save(t2) succeeded, memory and file hold t2, and a
\* getValues has been sent with it.
C20_Witness ==
    /\ tokenSrc = [origin |-> "login", sid |-> "t2"]
    /\ lastSave = [sid |-> "t2", io |-> "ok"]
    /\ sma_sid = [x \in {IP} |-> "t2"]
    /\ stored = "t2"
    /\ Len(reqs) = 3
    /\ reqs[1].sid = "t1"
    /\ reqs[3].kind = "getValues" /\ reqs[3].sid = "t2"

=============================================================================
